---- MODULE Spec2Model ----
(***************************************************************************)
(* Model of nexus' Freqlog (src/src/nexus/Freqlog/Freqlog.py): the         *)
(* listener callbacks that fill the queue, the consumer loop               *)
(* _process_queue with its nested _log_and_reset_word, start_logging and   *)
(* stop_logging.  Times are integers counting microseconds, the resolution *)
(* of datetime and timedelta.                                              *)
(***************************************************************************)
EXTENDS Integers, Sequences, FiniteSets, TLC

VARIABLES
    q,                            \* self.q: events put and not yet got
    now,                          \* the clock datetime.now() reads
    sent,                         \* number of events put so far
    listener,                     \* self.listener: "None", "running", "stopped"
    mouse_listener,               \* self.mouse_listener
    is_logging,                   \* self.is_logging
    pc,                           \* where the thread in start_logging is
    stop_pc,                      \* where the thread in stop_logging is
    word,                         \* _process_queue's locals
    word_start_time,
    word_end_time,
    chars_since_last_bs,
    avg_char_time_after_last_bs,
    active_modifier_keys,
    log,                          \* the calls made to backend.log_word / log_chord
    closed,                       \* number of calls made to backend.close
    store,                        \* self.backend: the words' frequencies and the ban list
    modifier_keys,                \* self.modifier_keys, as start_logging has set it
    hist,                         \* history: the events processed since the word was last empty
    last_op                       \* history: what the consumer did last

cand == <<word, word_start_time, word_end_time, chars_since_last_bs,
          avg_char_time_after_last_bs>>
vars == <<q, now, sent, listener, mouse_listener, is_logging, pc,
          stop_pc, word, word_start_time, word_end_time, chars_since_last_bs,
          avg_char_time_after_last_bs, active_modifier_keys, log, closed, store, modifier_keys, hist, last_op>>

----------------------------------------------------------------------------
\* Bounds of the model
MaxEvents == 4                    \* events the listeners put in one run
MaxQueue == 1                     \* events waiting in the queue
MaxEventsFair == 3                \* events the listeners put in a run of FairSpec
MaxEventsBan == 3                 \* events the listeners put in a run of SpecBan
MaxEventsModifiers == 3           \* events the listeners put in a run of SpecModifiers

\* Configuration (start_logging's parameters)
chord_char_threshold == 1         \* milliseconds
min_length == 1                   \* _log_and_reset_word's default argument

\* Optional values: None is the empty tuple, a value v is <<v>>
None == <<>>
Some(v) == <<v>>

\* timedelta(milliseconds=ms), in microseconds
Milliseconds(ms) == 1000 * ms

\* timedelta / int: the quotient rounded to the nearest microsecond, ties to even
DivRound(a, n) ==
    LET d == a \div n
        r == a % n
    IN  IF 2 * r > n \/ (2 * r = n /\ d % 2 = 1) THEN d + 1 ELSE d

\* Keys: kbd.KeyCode (a character), kbd.Key (a special key), mouse.Button
KeyCode(c) == [kind |-> "KeyCode", v |-> c]
Key(n) == [kind |-> "Key", v |-> n]
Button(n) == [kind |-> "Button", v |-> n]

allowed_keys_in_chord == {"h", "x", "i", "H"}
\* the modifier keys start_logging is called with, unless a run says otherwise
DEFAULT_MODIFIER_KEYS == {Key("ctrl")}
\* the keys and buttons the listeners report
KeyboardKeys ==
    {KeyCode("h"), KeyCode("i"), KeyCode("#"), Key("backspace"), Key("ctrl")}
MouseButtons == {Button("left")}

\* the gaps between two readings of the clock
Gaps == {0, Milliseconds(chord_char_threshold), Milliseconds(chord_char_threshold) + 1}

PRESS == "PRESS"
RELEASE == "RELEASE"
Event(a, k, t) == [action |-> a, key |-> k, time |-> t]

\* the case sensitivities a word is banned under
CaseSensitivity == {"SENSITIVE", "FIRST_CHAR", "INSENSITIVE"}

\* the store of a new database
EmptyStore == [words |-> {}, banlist |-> {}]

----------------------------------------------------------------------------
Init ==
    /\ q = <<>>
    /\ now = 0
    /\ sent = 0
    /\ listener = "None"
    /\ mouse_listener = "None"
    /\ is_logging = FALSE
    /\ pc = "start_listeners"
    /\ stop_pc = "idle"
    /\ word = <<>>
    /\ word_start_time = None
    /\ word_end_time = None
    /\ chars_since_last_bs = 0
    /\ avg_char_time_after_last_bs = None
    /\ active_modifier_keys = {}
    /\ log = <<>>
    /\ closed = 0
    /\ store = EmptyStore
    /\ modifier_keys = DEFAULT_MODIFIER_KEYS
    /\ hist = <<>>
    /\ last_op = <<"none">>

----------------------------------------------------------------------------
\* The listener callbacks (producers)

\* q.put((action, key, datetime.now()))
Put(a, k, gap) ==
    /\ sent < MaxEvents
    /\ Len(q) < MaxQueue
    /\ now' = now + gap
    /\ q' = Append(q, Event(a, k, now + gap))
    /\ sent' = sent + 1

_on_press(key, gap) ==
    /\ listener = "running"
    /\ Put(PRESS, key, gap)
    /\ UNCHANGED <<listener, mouse_listener, is_logging, pc, stop_pc, cand,
                   active_modifier_keys, log, store, closed, hist, last_op,
                   modifier_keys>>

_on_release(key, gap) ==
    /\ listener = "running"
    /\ key \in modifier_keys
    /\ Put(RELEASE, key, gap)
    /\ UNCHANGED <<listener, mouse_listener, is_logging, pc, stop_pc, cand,
                   active_modifier_keys, log, store, closed, hist, last_op,
                   modifier_keys>>

_on_click(button, gap) ==
    /\ mouse_listener = "running"
    /\ Put(PRESS, button, gap)
    /\ UNCHANGED <<listener, mouse_listener, is_logging, pc, stop_pc, cand,
                   active_modifier_keys, log, store, closed, hist, last_op,
                   modifier_keys>>

----------------------------------------------------------------------------
\* _log_and_reset_word

\* a timedelta is true unless it is timedelta(0); None is false
Truthy(td) == td # None /\ td[1] # 0

\* IsWord with the threshold itself taken for a word's average
IsWordFromThreshold(w, avg) ==
    /\ Len(w) > min_length
    /\ Truthy(avg)
    /\ avg[1] >= Milliseconds(chord_char_threshold)

\* the test that sends a candidate to _log_word
IsWord(w, avg) ==
    /\ Len(w) > min_length
    /\ Truthy(avg)
    /\ avg[1] > Milliseconds(chord_char_threshold)

\* LogCalls with the call of _log_word outside the tests of length and average
LogCallsUntested(w, start, end, avg) ==
    << [op |-> "log_word", text |-> w, start |-> start, end |-> end] >>

\* the calls _log_and_reset_word makes for candidate w: _log_word for a word,
\* nothing for a chord (the call of _log_chord is commented out)
LogCalls(w, start, end, avg) ==
    IF IsWord(w, avg)
    THEN << [op |-> "log_word", text |-> w, start |-> start, end |-> end] >>
    ELSE << >>

----------------------------------------------------------------------------
\* The store (self.backend): a record of the words, each with its frequency, and of
\* the ban list's entries; of a word's metadata only the frequency is kept

\* str.lower, on the characters typed
Lower(c) == IF c = "H" THEN "h" ELSE c

\* the key of text w under a case sensitivity
Fold(w, case) ==
    IF case = "INSENSITIVE"
    THEN [i \in DOMAIN w |-> Lower(w[i])]
    ELSE IF case = "FIRST_CHAR"
         THEN [i \in DOMAIN w |-> IF i = 1 THEN Lower(w[i]) ELSE w[i]]
         ELSE w

\* the frequency of text w: 0 for a text the store has no entry of
Frequency(st, w) ==
    IF \E m \in st.words : m.word = w
    THEN (CHOOSE m \in st.words : m.word = w).frequency
    ELSE 0

check_banned(st, w, case) ==
    \E e \in st.banlist : e.word = Fold(w, case) /\ e.case = case

\* log_word with no look at the ban list
log_word_unchecked(st, w) ==
    [st EXCEPT !.words = {m \in @ : m.word # w}
                            \cup {[word |-> w, frequency |-> Frequency(st, w) + 1]}]

\* backend.log_word: one more occurrence of w, unless w is banned under some case
log_word(st, w) ==
    IF \E case \in CaseSensitivity : check_banned(st, w, case)
    THEN st
    ELSE [st EXCEPT !.words = {m \in @ : m.word # w}
                                 \cup {[word |-> w, frequency |-> Frequency(st, w) + 1]}]

\* backend.ban_word: the word's entries are deleted and the ban list gets an entry;
\* no change if the word is banned already
backend_ban_word(st, w, case, time) ==
    IF check_banned(st, w, case)
    THEN st
    ELSE [st EXCEPT !.words = {m \in @ : Fold(m.word, case) # Fold(w, case)},
                    !.banlist = @ \cup {[word |-> Fold(w, case), case |-> case,
                                         date_added |-> time]}]

\* backend.unban_word: the ban list loses the word's entry
backend_unban_word(st, w, case) ==
    [st EXCEPT !.banlist = {e \in @ : ~(e.word = Fold(w, case) /\ e.case = case)}]

\* the store after the calls _log_word makes (at most one)
StoreAfter(calls) == IF calls = << >> THEN store ELSE log_word(store, calls[1].text)

----------------------------------------------------------------------------
_log_and_reset_word ==
    IF word = <<>>
    THEN UNCHANGED <<cand, log, store>>
    ELSE /\ log' = log \o LogCalls(word, word_start_time, word_end_time,
                                   avg_char_time_after_last_bs)
         /\ store' = StoreAfter(LogCalls(word, word_start_time, word_end_time,
                                         avg_char_time_after_last_bs))
         /\ word' = <<>>
         /\ word_start_time' = None
         /\ word_end_time' = None
         /\ chars_since_last_bs' = 0
         /\ avg_char_time_after_last_bs' = None

----------------------------------------------------------------------------
\* _process_queue (the consumer)

\* IsChordKey with every character key taken for a chord key
IsChordKeyAnyChar(key) == key.kind = "KeyCode"

IsChordKey(key) == key.kind = "KeyCode" /\ key.v \in allowed_keys_in_chord

\* UpdateModifiers with a Release that removes nothing
UpdateModifiersKeepsReleased(e) ==
    IF e.action = PRESS /\ e.key \in modifier_keys
    THEN active_modifier_keys \cup {e.key}
    ELSE active_modifier_keys

\* the active modifiers after event e
UpdateModifiers(e) ==
    IF e.action = PRESS /\ e.key \in modifier_keys
    THEN active_modifier_keys \cup {e.key}
    ELSE IF e.action = RELEASE
         THEN active_modifier_keys \ {e.key}
         ELSE active_modifier_keys

\* Backspace with the average kept
BackspaceKeepsAverage ==
    /\ word' = SubSeq(word, 1, Len(word) - 1)
    /\ chars_since_last_bs' = 0
    /\ UNCHANGED <<word_start_time, word_end_time, avg_char_time_after_last_bs, log, store>>

\* word = word[:-1] and the counters' reset
Backspace ==
    /\ word' = SubSeq(word, 1, Len(word) - 1)
    /\ chars_since_last_bs' = 0
    /\ avg_char_time_after_last_bs' = None
    /\ UNCHANGED <<word_start_time, word_end_time, log, store>>

\* the rolling mean after the character pressed at time t
NextAvg(n, t) ==
    IF word_start_time = None
    THEN avg_char_time_after_last_bs
    ELSE IF n > 1 /\ Truthy(avg_char_time_after_last_bs)
         THEN Some(DivRound(avg_char_time_after_last_bs[1] * (n - 1) + (t - word_end_time[1]), n))
         ELSE IF n > 1
              THEN Some(t - word_end_time[1])
              ELSE avg_char_time_after_last_bs

\* AddChar with the two times taken one for the other
AddCharTimesSwapped(e) ==
    /\ word' = Append(word, e.key.v)
    /\ chars_since_last_bs' = chars_since_last_bs + 1
    /\ word_end_time' = IF word_end_time = None THEN Some(e.time) ELSE word_end_time
    /\ avg_char_time_after_last_bs' = NextAvg(chars_since_last_bs + 1, e.time)
    /\ word_start_time' = Some(e.time)
    /\ UNCHANGED <<log, store>>

\* AddChar with the start time set at every character
AddCharRestarts(e) ==
    /\ word' = Append(word, e.key.v)
    /\ chars_since_last_bs' = chars_since_last_bs + 1
    /\ word_start_time' = Some(e.time)
    /\ avg_char_time_after_last_bs' = NextAvg(chars_since_last_bs + 1, e.time)
    /\ word_end_time' = Some(e.time)
    /\ UNCHANGED <<log, store>>

\* word += key.char and the timing's update
AddChar(e) ==
    /\ word' = Append(word, e.key.v)
    /\ chars_since_last_bs' = chars_since_last_bs + 1
    /\ word_start_time' = IF word_start_time = None THEN Some(e.time) ELSE word_start_time
    /\ avg_char_time_after_last_bs' = NextAvg(chars_since_last_bs + 1, e.time)
    /\ word_end_time' = Some(e.time)
    /\ UNCHANGED <<log, store>>

\* history: event e, with the modifiers active once it is processed, is added to the
\* events processed since the word was last empty
HistAfter(e) ==
    IF word' = <<>>
    THEN <<>>
    ELSE Append(hist, [action |-> e.action, key |-> e.key, time |-> e.time,
                       mods |-> UpdateModifiers(e)])

\* history: the branch of the loop body event e takes
OpOf(e) ==
    IF e.key = Key("backspace") /\ word # <<>>
    THEN <<"backspace">>
    ELSE IF ~IsChordKey(e.key)
         THEN <<"key_flush", Len(word)>>
         ELSE IF UpdateModifiers(e) = {} THEN <<"append">> ELSE <<"drop">>

\* Process with the character added whatever modifiers are active
ProcessIgnoringModifiers(e) ==
    /\ active_modifier_keys' = UpdateModifiers(e)
    /\ IF e.key = Key("backspace") /\ word # <<>>
       THEN Backspace
       ELSE IF ~IsChordKey(e.key)
            THEN IF word # <<>> THEN _log_and_reset_word ELSE UNCHANGED <<cand, log, store>>
            ELSE AddChar(e)

\* Process with a non-chord key dropped without a flush
ProcessDropsNonChordKey(e) ==
    /\ active_modifier_keys' = UpdateModifiers(e)
    /\ IF e.key = Key("backspace") /\ word # <<>>
       THEN Backspace
       ELSE IF ~IsChordKey(e.key)
            THEN UNCHANGED <<cand, log, store>>
            ELSE IF UpdateModifiers(e) = {}
                 THEN AddChar(e)
                 ELSE UNCHANGED <<cand, log, store>>

\* the body of the loop for the event got from the queue
Process(e) ==
    /\ active_modifier_keys' = UpdateModifiers(e)
    /\ IF e.key = Key("backspace") /\ word # <<>>
       THEN Backspace
       ELSE IF ~IsChordKey(e.key)
            THEN IF word # <<>> THEN _log_and_reset_word ELSE UNCHANGED <<cand, log, store>>
            ELSE IF UpdateModifiers(e) = {}
                 THEN AddChar(e)
                 ELSE UNCHANGED <<cand, log, store>>

\* q.get returns an event
GetEvent ==
    /\ pc = "get"
    /\ q # <<>>
    /\ q' = Tail(q)
    /\ Process(Head(q))
    /\ hist' = HistAfter(Head(q))
    /\ last_op' = OpOf(Head(q))
    /\ UNCHANGED <<now, sent, listener, mouse_listener, is_logging, pc,
                   stop_pc, closed,
                   modifier_keys>>

\* q.get times out: EmptyException is raised
GetEmpty ==
    /\ pc = "get"
    /\ q = <<>>
    /\ pc' = "except"
    /\ UNCHANGED <<q, now, sent, listener, mouse_listener, is_logging,
                   stop_pc, cand, active_modifier_keys, log, store, closed, hist, last_op,
                   modifier_keys>>

\* HandleEmpty with the candidate's fields reset whether or not there is a word
HandleEmptyResetsAlways ==
    /\ pc = "except"
    /\ log' = log \o (IF word # <<>>
                      THEN LogCalls(word, word_start_time, word_end_time,
                                    avg_char_time_after_last_bs)
                      ELSE << >>)
    /\ store' = StoreAfter(IF word # <<>>
                           THEN LogCalls(word, word_start_time, word_end_time,
                                         avg_char_time_after_last_bs)
                           ELSE << >>)
    /\ word' = <<>>
    /\ word_start_time' = None
    /\ word_end_time' = None
    /\ chars_since_last_bs' = 0
    /\ avg_char_time_after_last_bs' = None
    /\ IF ~is_logging
       THEN closed' = closed + 1 /\ pc' = "done"
       ELSE closed' = closed /\ pc' = "get"
    /\ hist' = <<>>
    /\ last_op' = <<"tick", Len(word)>>
    /\ UNCHANGED <<q, now, sent, listener, mouse_listener, is_logging,
                   stop_pc, active_modifier_keys,
                   modifier_keys>>

\* HandleEmpty with the store closed and the loop left without reading is_logging
HandleEmptyLeavesAlways ==
    /\ pc = "except"
    /\ IF word # <<>> THEN _log_and_reset_word ELSE UNCHANGED <<cand, log, store>>
    /\ closed' = closed + 1
    /\ pc' = "done"
    /\ hist' = <<>>
    /\ last_op' = <<"tick", Len(word)>>
    /\ UNCHANGED <<q, now, sent, listener, mouse_listener, is_logging,
                   stop_pc, active_modifier_keys,
                   modifier_keys>>

\* HandleEmpty with the loop never left
HandleEmptyNeverLeaves ==
    /\ pc = "except"
    /\ IF word # <<>> THEN _log_and_reset_word ELSE UNCHANGED <<cand, log, store>>
    /\ closed' = closed
    /\ pc' = "get"
    /\ hist' = <<>>
    /\ last_op' = <<"tick", Len(word)>>
    /\ UNCHANGED <<q, now, sent, listener, mouse_listener, is_logging,
                   stop_pc, active_modifier_keys,
                   modifier_keys>>

\* the except clause: flush, then close and leave if logging is stopped
HandleEmpty ==
    /\ pc = "except"
    /\ IF word # <<>> THEN _log_and_reset_word ELSE UNCHANGED <<cand, log, store>>
    /\ IF ~is_logging
       THEN closed' = closed + 1 /\ pc' = "done"
       ELSE closed' = closed /\ pc' = "get"
    /\ hist' = <<>>
    /\ last_op' = <<"tick", Len(word)>>
    /\ UNCHANGED <<q, now, sent, listener, mouse_listener, is_logging,
                   stop_pc, active_modifier_keys,
                   modifier_keys>>

----------------------------------------------------------------------------
\* start_logging and stop_logging

\* self.listener.start(); self.mouse_listener.start()
StartListeners ==
    /\ pc = "start_listeners"
    /\ listener' = "running"
    /\ mouse_listener' = "running"
    /\ pc' = "set_is_logging"
    /\ UNCHANGED <<q, now, sent, is_logging, stop_pc, cand,
                   active_modifier_keys, log, store, closed, hist, last_op,
                   modifier_keys>>

\* self.is_logging = True; self._process_queue()
SetIsLogging ==
    /\ pc = "set_is_logging"
    /\ is_logging' = TRUE
    /\ pc' = "get"
    /\ UNCHANGED <<q, now, sent, listener, mouse_listener, stop_pc, cand,
                   active_modifier_keys, log, store, closed, hist, last_op,
                   modifier_keys>>

\* stop_logging: the listeners that exist are stopped
StopListeners ==
    /\ stop_pc = "idle"
    /\ listener' = IF listener = "None" THEN "None" ELSE "stopped"
    /\ mouse_listener' = IF mouse_listener = "None" THEN "None" ELSE "stopped"
    /\ stop_pc' = "clear_is_logging"
    /\ UNCHANGED <<q, now, sent, is_logging, pc, cand,
                   active_modifier_keys, log, store, closed, hist, last_op,
                   modifier_keys>>

\* stop_logging: self.is_logging = False
ClearIsLogging ==
    /\ stop_pc = "clear_is_logging"
    /\ is_logging' = FALSE
    /\ stop_pc' = "idle"
    /\ UNCHANGED <<q, now, sent, listener, mouse_listener, pc, cand,
                   active_modifier_keys, log, store, closed, hist, last_op,
                   modifier_keys>>

----------------------------------------------------------------------------
Producer ==
    \/ \E key \in KeyboardKeys, gap \in Gaps : _on_press(key, gap)
    \/ \E key \in KeyboardKeys, gap \in Gaps : _on_release(key, gap)
    \/ \E button \in MouseButtons, gap \in Gaps : _on_click(button, gap)

Consumer == GetEvent \/ GetEmpty \/ HandleEmpty

Next ==
    \/ Producer
    \/ Consumer
    \/ StartListeners
    \/ SetIsLogging
    \/ StopListeners
    \/ ClearIsLogging

\* The store's operations succeed
Spec == Init /\ [][Next]_vars

\* The consumer thread is scheduled as long as it can take a step
NextFair ==
    \/ sent < MaxEventsFair /\ \E key \in KeyboardKeys, gap \in Gaps : _on_press(key, gap)
    \/ sent < MaxEventsFair /\ \E key \in KeyboardKeys, gap \in Gaps : _on_release(key, gap)
    \/ sent < MaxEventsFair /\ \E button \in MouseButtons, gap \in Gaps : _on_click(button, gap)
    \/ Consumer
    \/ StartListeners
    \/ SetIsLogging
    \/ StopListeners
    \/ ClearIsLogging

FairSpec == Init /\ [][NextFair]_vars /\ WF_vars(Consumer)

----------------------------------------------------------------------------
\* A run in which backend.log_word may raise

\* the flush of this candidate calls backend.log_word
CallsLogWord == word # <<>> /\ IsWord(word, avg_char_time_after_last_bs)

\* q.get returns a non-chord key, and backend.log_word raises in _log_and_reset_word:
\* the exception leaves _process_queue before the candidate is reset
GetEventRaises ==
    /\ pc = "get"
    /\ q # <<>>
    /\ ~(Head(q).key = Key("backspace") /\ word # <<>>)
    /\ ~IsChordKey(Head(q).key)
    /\ CallsLogWord
    /\ q' = Tail(q)
    /\ active_modifier_keys' = UpdateModifiers(Head(q))
    /\ pc' = "raised"
    /\ last_op' = <<"raised">>
    /\ UNCHANGED <<now, sent, listener, mouse_listener, is_logging, stop_pc, cand, log, store,
                   closed, hist,
                   modifier_keys>>

\* backend.log_word raises in the except clause: the exception leaves _process_queue
\* before the candidate is reset and before is_logging is read
HandleEmptyRaises ==
    /\ pc = "except"
    /\ CallsLogWord
    /\ pc' = "raised"
    /\ last_op' = <<"raised">>
    /\ UNCHANGED <<q, now, sent, listener, mouse_listener, is_logging, stop_pc, cand,
                   active_modifier_keys, log, store, closed, hist,
                   modifier_keys>>

NextFail ==
    \/ Next
    \/ GetEventRaises
    \/ HandleEmptyRaises

SpecFail == Init /\ [][NextFail]_vars

----------------------------------------------------------------------------
\* A run of the loop on the keys h, x, backspace, i, pressed in this order

ScenarioKeys == <<KeyCode("h"), KeyCode("x"), Key("backspace"), KeyCode("i")>>

\* the state start_logging(modifier_keys=keys) has reached when it enters
\* _process_queue
Running(keys) ==
    /\ q = <<>>
    /\ now = 0
    /\ sent = 0
    /\ listener = "running"
    /\ mouse_listener = "running"
    /\ is_logging = TRUE
    /\ pc = "get"
    /\ stop_pc = "idle"
    /\ word = <<>>
    /\ word_start_time = None
    /\ word_end_time = None
    /\ chars_since_last_bs = 0
    /\ avg_char_time_after_last_bs = None
    /\ active_modifier_keys = {}
    /\ log = <<>>
    /\ closed = 0
    /\ store = EmptyStore
    /\ modifier_keys = keys
    /\ hist = <<>>
    /\ last_op = <<"none">>

InitRunning == Running(DEFAULT_MODIFIER_KEYS)

ScenarioPress ==
    /\ sent < Len(ScenarioKeys)
    /\ \E gap \in Gaps : _on_press(ScenarioKeys[sent + 1], gap)

NextScenario ==
    \/ ScenarioPress
    \/ GetEvent
    \/ GetEmpty
    \/ HandleEmpty

SpecScenario == InitRunning /\ [][NextScenario]_vars

----------------------------------------------------------------------------
\* A run of the loop while words are banned and unbanned

\* the keys typed and the words banned and unbanned
BanKeys == {KeyCode("h"), KeyCode("H")}
BanWords == {<<"H", "h">>}

\* Freqlog.ban_word: time = datetime.now(); self.backend.ban_word(word, case, time)
ban_word(w, case) ==
    /\ store' = backend_ban_word(store, w, case, now)
    /\ UNCHANGED <<q, now, sent, listener, mouse_listener, is_logging, pc, stop_pc,
                   cand, active_modifier_keys, log, closed, hist, last_op,
                   modifier_keys>>

\* Freqlog.unban_word: self.backend.unban_word(word, case)
unban_word(w, case) ==
    /\ store' = backend_unban_word(store, w, case)
    /\ UNCHANGED <<q, now, sent, listener, mouse_listener, is_logging, pc, stop_pc,
                   cand, active_modifier_keys, log, closed, hist, last_op,
                   modifier_keys>>

\* the gaps between the keys typed: none, and one above the chord threshold
BanGaps == {0, Milliseconds(chord_char_threshold) + 1}

BanPress ==
    /\ sent < MaxEventsBan
    /\ \E key \in BanKeys, gap \in BanGaps : _on_press(key, gap)

NextBan ==
    \/ BanPress
    \/ Consumer
    \/ \E w \in BanWords, case \in CaseSensitivity : ban_word(w, case)
    \/ \E w \in BanWords, case \in CaseSensitivity : unban_word(w, case)

SpecBan == InitRunning /\ [][NextBan]_vars

----------------------------------------------------------------------------
\* A run of the loop for each of several sets of modifier keys

\* the sets start_logging is called with: none of their keys is a character key
ModifierConfigs == {{Key("ctrl")}, {Key("backspace")}}

\* the keys pressed and released
ModifierRunKeys == {KeyCode("h"), Key("ctrl"), Key("backspace")}

InitModifiers == \E keys \in ModifierConfigs : Running(keys)

ModifiersPress ==
    /\ sent < MaxEventsModifiers
    /\ \E key \in ModifierRunKeys, gap \in Gaps : _on_press(key, gap)

ModifiersRelease ==
    /\ sent < MaxEventsModifiers
    /\ \E key \in ModifierRunKeys, gap \in Gaps : _on_release(key, gap)

NextModifiers ==
    \/ ModifiersPress
    \/ ModifiersRelease
    \/ Consumer

SpecModifiers == InitModifiers /\ [][NextModifiers]_vars

----------------------------------------------------------------------------
\* Properties

\* the calls the step logs
NewCalls == SubSeq(log', Len(log) + 1, Len(log'))

ChordThreshold == Milliseconds(chord_char_threshold)

\* an accepted press: a Press of an allowed character with no modifier active
AcceptedPress(h) == h.action = PRESS /\ IsChordKey(h.key) /\ h.mods = {}

OnlyAcceptedPresses(hs) == hs # <<>> /\ \A i \in DOMAIN hs : AcceptedPress(hs[i])

TextOf(hs) == [i \in DOMAIN hs |-> hs[i].key.v]

CandidateIsReset ==
    /\ word = <<>>
    /\ word_start_time = None
    /\ word_end_time = None
    /\ chars_since_last_bs = 0
    /\ avg_char_time_after_last_bs = None

\* the step is the except clause's: the timeout tick
TickStep == pc = "except" /\ pc' # "except"

\* the step is the loop body's, for the event at the head of the queue
EventStep == pc = "get" /\ q # <<>> /\ q' = Tail(q)

\* C1: when a timeout tick follows a sequence of accepted presses, with no backspace,
\* that began on an empty candidate, the record the tick logs has the presses'
\* characters in order as its text, the first press's time as its start and the last
\* press's time as its end.
C1_LoggedRecordIsThePresses ==
    [][(TickStep /\ OnlyAcceptedPresses(hist) /\ log' # log)
        => /\ Len(NewCalls) = 1
           /\ NewCalls[1].text = TextOf(hist)
           /\ NewCalls[1].start = Some(hist[1].time)
           /\ NewCalls[1].end = Some(hist[Len(hist)].time)]_vars

\* the events processed since the empty candidate are the presses of h, x, backspace, i
IsScenario(hs, n) ==
    /\ Len(hs) = n
    /\ \A i \in 1..n :
        hs[i].action = PRESS /\ hs[i].key = ScenarioKeys[i] /\ hs[i].mods = {}

\* C2: from an empty candidate, the presses h, x, backspace, i and then a timeout tick
\* log one record with text "hi" and the h press's time as its start, and the backspace
\* resets chars_since_last_bs and avg_char_time_after_last_bs.
C2_BackspaceScenarioLogsHi ==
    [][/\ (TickStep /\ IsScenario(hist, 4))
           => /\ Len(NewCalls) = 1
              /\ NewCalls[1].text = <<"h", "i">>
              /\ NewCalls[1].start = Some(hist[1].time)
       /\ (IsScenario(hist, 2) /\ IsScenario(hist', 3))
           => /\ chars_since_last_bs' = 0
              /\ avg_char_time_after_last_bs' = None]_vars

\* C3: log_word is called for a flushed candidate only if the candidate's
\* avg_char_time_after_last_bs is defined and strictly greater than the chord threshold.
C3_WordOnlyAboveThreshold ==
    [][\A i \in DOMAIN NewCalls :
        NewCalls[i].op = "log_word"
            => /\ avg_char_time_after_last_bs # None
               /\ avg_char_time_after_last_bs[1] > ChordThreshold]_vars

\* C3's case: a two-character word whose only gap is one microsecond above the threshold
\* has been logged.
C3_Witness ==
    \E i \in DOMAIN log :
        /\ log[i].op = "log_word"
        /\ Len(log[i].text) = 2
        /\ log[i].end[1] - log[i].start[1] = ChordThreshold + 1

\* C4: every flush of a candidate of length at least 2 makes exactly one call, log_word
\* or log_chord, and the call is log_chord, with the candidate's text, start and end,
\* when the average gap does not exceed the chord threshold.
C4_FlushLogsWordOrChord ==
    [][(Len(word) >= 2 /\ word' = <<>>)
        => /\ Len(NewCalls) = 1
           /\ NewCalls[1].text = word
           /\ NewCalls[1].start = word_start_time
           /\ NewCalls[1].end = word_end_time
           /\ NewCalls[1].op =
                IF avg_char_time_after_last_bs # None
                   /\ avg_char_time_after_last_bs[1] > ChordThreshold
                THEN "log_word" ELSE "log_chord"]_vars

\* C5: a call is logged only for a candidate of at least 2 characters, and a timeout
\* tick that finds a single accepted character logs nothing and resets the candidate.
C5_ShortCandidateNotLogged ==
    [][/\ log' # log => Len(word) >= 2
       /\ (TickStep /\ Len(hist) = 1 /\ OnlyAcceptedPresses(hist))
           => (log' = log /\ CandidateIsReset')]_vars

\* C5's case: the last thing the consumer did is a timeout tick that flushed a candidate
\* of one character.
C5_Witness == last_op = <<"tick", 1>> /\ CandidateIsReset /\ pc = "get"

\* C6: while a modifier is active, processing the Press of an allowed character leaves
\* the candidate (word, start, end, counter, average) unchanged and calls nothing of
\* the store.
C6_ModifierSuppression ==
    [][(EventStep /\ active_modifier_keys # {}
            /\ Head(q).action = PRESS /\ IsChordKey(Head(q).key))
        => UNCHANGED <<cand, log, store, closed>>]_vars

\* C6's case: an allowed character has just been dropped, on a candidate that still
\* holds the start time of an erased character.
C6_Witness == last_op = <<"drop">> /\ word_start_time # None /\ active_modifier_keys # {}

\* the loop body takes its flush branch (a non-chord key) on an empty word
EmptyFlushStep == EventStep /\ word = <<>> /\ ~IsChordKey(Head(q).key)

\* C7, as claimed: a timeout tick or a flush on an empty word calls nothing of the store
\* (log_word, log_chord, close) and changes no engine state.
C7_EmptyFlushChangesNothing ==
    [][/\ (TickStep /\ word = <<>>)
           => UNCHANGED <<cand, active_modifier_keys, log, store, closed>>
       /\ EmptyFlushStep => UNCHANGED <<cand, log, store, closed>>]_vars

\* C7, amended: a timeout tick or a flush on an empty word logs nothing and leaves the
\* candidate and the modifiers as they are; the tick calls close, once, and leaves the
\* loop exactly when is_logging is false.
C7_EmptyFlushLogsNothing ==
    [][/\ (TickStep /\ word = <<>>)
           => /\ UNCHANGED <<cand, active_modifier_keys, log, store>>
              /\ IF is_logging
                 THEN closed' = closed /\ pc' = "get"
                 ELSE closed' = closed + 1 /\ pc' = "done"
       /\ EmptyFlushStep => UNCHANGED <<cand, log, store, closed>>]_vars

\* C7's case: a timeout tick has run on an empty word whose start time was still set,
\* and the loop goes on.
C7_Witness == last_op = <<"tick", 0>> /\ word_start_time # None /\ pc = "get"

\* the candidate is one _log_and_reset_word sends to log_word
FlushedAsWord ==
    /\ Len(word) >= 2
    /\ avg_char_time_after_last_bs # None
    /\ avg_char_time_after_last_bs[1] > ChordThreshold

\* C8: the store is closed and the loop left only by a timeout tick that finds
\* is_logging false, and that tick flushes the candidate first; close is called at most
\* once; nothing is logged after close.
C8_ShutdownProtocol ==
    /\ [](closed <= 1)
    /\ [][/\ (closed' # closed \/ (pc' = "done" /\ pc # "done"))
              => /\ TickStep
                 /\ ~is_logging
                 /\ closed' = closed + 1
                 /\ pc' = "done"
                 /\ word' = <<>>
                 /\ FlushedAsWord => (Len(NewCalls) = 1 /\ NewCalls[1].text = word)
          /\ closed >= 1 => (log' = log /\ closed' = closed /\ pc' = "done")]_vars

\* C8's case: the loop has ended on a tick that flushed a candidate of two characters,
\* with a word logged and the store closed once.
C8_Witness == pc = "done" /\ closed = 1 /\ last_op = <<"tick", 2>> /\ log # <<>>

\* stop_logging has stopped the listeners and cleared is_logging while the loop runs
StoppedWhileRunning ==
    /\ pc \in {"get", "except"}
    /\ ~is_logging
    /\ listener = "stopped"
    /\ mouse_listener = "stopped"

\* C9: once stop_logging has stopped the listeners and cleared is_logging of a running
\* loop, the loop eventually closes the store and ends.
C9_StopTerminates == StoppedWhileRunning ~> (pc = "done" /\ closed = 1)

\* C9's case: the loop has ended after a stop, having drained the events that were sent.
C9_Witness ==
    /\ pc = "done"
    /\ closed = 1
    /\ ~is_logging
    /\ listener = "stopped"
    /\ sent > 0
    /\ q = <<>>

\* C10: when backend.log_word raises during a flush, the loop goes on and the candidate
\* is reset.
C10_FailureDropsTheWord ==
    last_op = <<"raised">> => (pc \in {"get", "except"} /\ CandidateIsReset)

\* text w is banned: ban_word(w, case) has added an entry for some case, and no
\* unban_word has removed it
BanHeld(w) == \E e \in store.banlist : e.word = Fold(w, e.case)

\* C11: while text w is banned, the flush of a candidate w of two characters or more
\* that is a word does not raise w's frequency in the store; no banned text has an entry
\* among the store's words.
C11_BanEnforcement ==
    /\ [](\A m \in store.words : ~BanHeld(m.word))
    /\ [][(word # <<>> /\ word' = <<>> /\ FlushedAsWord /\ BanHeld(word))
            => Frequency(store', word) <= Frequency(store, word)]_vars

\* C11's case: the loop has called log_word for a text typed after the ban of this
\* text, and the text has no frequency in the store.
C11_Witness ==
    /\ log # <<>>
    /\ \E e \in store.banlist :
          /\ e.word = Fold(log[Len(log)].text, e.case)
          /\ e.date_added < log[Len(log)].start[1]
    /\ Frequency(store, log[Len(log)].text) = 0
    /\ last_op[1] \in {"tick", "key_flush"}
    /\ last_op[2] >= 2

\* C12: every character of the candidate is an allowed character, and so is every
\* character of every logged text.
C12_OnlyAllowedCharacters ==
    /\ \A i \in DOMAIN word : word[i] \in allowed_keys_in_chord
    /\ \A i \in DOMAIN log : \A j \in DOMAIN log[i].text :
          log[i].text[j] \in allowed_keys_in_chord

\* C12's case: a word has been logged and a later candidate is being typed.
C12_Witness ==
    /\ log # <<>>
    /\ word # <<>>
    /\ \E i \in DOMAIN log : log[i].end[1] < word_start_time[1]

\* C13: whenever the candidate has a start and an end time, start <= end, and every
\* logged record has start <= end.
C13_StartNotAfterEnd ==
    /\ (word_start_time # None /\ word_end_time # None)
          => word_start_time[1] <= word_end_time[1]
    /\ \A i \in DOMAIN log : log[i].start[1] <= log[i].end[1]

\* C13's case: a logged record and a candidate whose end is after its start.
C13_Witness ==
    /\ log # <<>>
    /\ word_start_time # None
    /\ word_end_time # None
    /\ word_start_time[1] < word_end_time[1]

\* C14: whenever the candidate text is empty its start and end time are unset, so the
\* first character added to an empty candidate sets the start time to its own time.
C14_EmptyCandidateHasNoTimes ==
    /\ word = <<>> => (word_start_time = None /\ word_end_time = None)
    /\ Len(word) = 1 /\ Len(hist) = 1 /\ last_op = <<"append">>
          => word_start_time = Some(hist[1].time)

\* C15: a step that leaves the candidate non-empty (a further character, a backspace
\* that leaves a character, a dropped key) leaves start_time as it is, and equal to the
\* time of the candidate's first accepted character if it was.
C15_StartTimeIsKept ==
    [][(word # <<>> /\ word' # <<>>)
        => /\ word_start_time' = word_start_time
           /\ word_start_time = Some(hist[1].time)
                 => word_start_time' = Some(hist'[1].time)]_vars

\* C15's case: a backspace has left one character of a candidate whose start time is
\* the first character's.
C15_Witness ==
    /\ last_op = <<"backspace">>
    /\ Len(word) = 1
    /\ Len(hist) = 3
    /\ word_start_time = Some(hist[1].time)
    /\ word_end_time[1] > word_start_time[1]

\* the step appends the character of the event at the head of the queue
AppendStep == EventStep /\ OpOf(Head(q)) = <<"append">>

\* the average the rolling mean starts from: 0 while there is none
AvgOld == IF avg_char_time_after_last_bs = None THEN 0 ELSE avg_char_time_after_last_bs[1]

\* C16: when the n-th character since the last backspace, n >= 2, is appended with gap
\* g = time - end_time, the average becomes (avg_old * (n - 1) + g) / n, avg_old being 0
\* while there is no average; for every n >= 2 and every gap, a gap of zero included.
C16_RollingMean ==
    [][(AppendStep /\ chars_since_last_bs >= 1)
        => avg_char_time_after_last_bs' =
              Some(DivRound(AvgOld * chars_since_last_bs
                              + (Head(q).time - word_end_time[1]),
                            chars_since_last_bs + 1))]_vars

\* the step processes a Press of a key that is no allowed character and no backspace on
\* a non-empty candidate
NonMemberPress ==
    /\ EventStep
    /\ Head(q).action = PRESS
    /\ ~(Head(q).key.kind = "KeyCode" /\ Head(q).key.v \in allowed_keys_in_chord)
    /\ ~(Head(q).key = Key("backspace") /\ word # <<>>)

\* C17: a Press of a key that is no allowed character (a backspace on a non-empty
\* candidate apart) flushes a non-empty candidate, which is logged if it is a word and
\* reset, changes nothing of an empty one, and leaves the candidate empty: the key is
\* not appended.
C17_NonMemberKeyFlushes ==
    [][NonMemberPress
        => /\ word' = <<>>
           /\ word # <<>>
                 => /\ word_start_time' = None /\ word_end_time' = None
                    /\ chars_since_last_bs' = 0 /\ avg_char_time_after_last_bs' = None
                    /\ FlushedAsWord => (Len(NewCalls) = 1 /\ NewCalls[1].text = word)
                    /\ ~FlushedAsWord => log' = log
           /\ word = <<>> => UNCHANGED <<cand, log, store>>
           /\ closed' = closed]_vars

\* C17's case: a Press of the modifier key has flushed a candidate of two characters,
\* which was logged.
C17_Witness ==
    /\ last_op = <<"key_flush", 2>>
    /\ active_modifier_keys = {Key("ctrl")}
    /\ word = <<>>
    /\ log # <<>>

\* the step processes a backspace
BackspaceStep == EventStep /\ Head(q).key = Key("backspace")

\* C18: processing a backspace calls nothing of the store; on a non-empty candidate it
\* removes the last character, sets chars_since_last_bs to 0 and the average to None and
\* leaves the start time; on an empty candidate it changes nothing.
C18_BackspaceStep ==
    [][BackspaceStep
        => /\ log' = log
           /\ closed' = closed
           /\ word # <<>>
                 => /\ word' = SubSeq(word, 1, Len(word) - 1)
                    /\ chars_since_last_bs' = 0
                    /\ avg_char_time_after_last_bs' = None
                    /\ word_start_time' = word_start_time
           /\ word = <<>> => UNCHANGED <<cand, active_modifier_keys>>]_vars

\* C18's case: a backspace has removed the second character of a candidate that had an
\* average, leaving the first character.
C18_Witness ==
    /\ last_op = <<"backspace">>
    /\ Len(hist) = 3
    /\ hist[2].time > hist[1].time
    /\ word = <<hist[1].key.v>>
    /\ chars_since_last_bs = 0
    /\ avg_char_time_after_last_bs = None

\* C19: the active modifiers are the modifier keys whose last processed event was a
\* Press: none at the start; processing an event of key k makes k active exactly if k is
\* a modifier key and the event a Press, and leaves every other key as it was; no other
\* step changes the set. The set is within modifier_keys.
C19_ModifierTracking ==
    /\ active_modifier_keys = {}
    /\ [](active_modifier_keys \subseteq modifier_keys)
    /\ [][/\ EventStep
              => \A k \in KeyboardKeys \cup MouseButtons :
                    k \in active_modifier_keys'
                       <=> IF k = Head(q).key
                           THEN Head(q).action = PRESS /\ k \in modifier_keys
                           ELSE k \in active_modifier_keys
          /\ ~EventStep => active_modifier_keys' = active_modifier_keys]_vars

\* C19's case: a character was dropped while the modifier key, pressed and not released,
\* is active.
C19_Witness == active_modifier_keys = {Key("ctrl")} /\ last_op = <<"drop">>

\* C20: when the loop has ended and the store is closed, after stop_logging stopped the
\* listeners and cleared is_logging, no event is left in the queue.
C20_ExitsOnlyWithEmptyQueue ==
    (pc = "done" /\ closed = 1 /\ listener = "stopped" /\ mouse_listener = "stopped"
        /\ stop_pc = "idle")
       => q = <<>>

\* C21 .. C23

\* C21: once a stop_logging that found the listeners started has run to its end,
\* is_logging is false, whether or not start_logging had set it before (the loop then
\* closes the store and ends at its next timeout).
C21_StopIsNeverLost ==
    (listener = "stopped" /\ mouse_listener = "stopped" /\ stop_pc = "idle")
       => ~is_logging

\* no modifier key is a character key of the allowed characters
NoModifierIsAllowedChar == \A k \in modifier_keys : ~IsChordKey(k)

\* C22, as claimed: if no modifier key is an allowed character key, the candidate is
\* empty whenever a modifier is active.
C22_ActiveModifierMeansEmptyWord ==
    (NoModifierIsAllowedChar /\ active_modifier_keys # {}) => word = <<>>

\* C22, amended: if no modifier key is an allowed character key and backspace is no
\* modifier key, the candidate is empty whenever a modifier is active.
C22_ActiveModifierMeansEmptyWordUnlessBackspace ==
    (NoModifierIsAllowedChar /\ Key("backspace") \notin modifier_keys
        /\ active_modifier_keys # {})
       => word = <<>>

\* C22's case: the press of the modifier key ctrl has flushed a candidate of two
\* characters, and ctrl is active.
C22_Witness ==
    /\ Key("backspace") \notin modifier_keys
    /\ active_modifier_keys = {Key("ctrl")}
    /\ last_op = <<"key_flush", 2>>
    /\ word = <<>>

\* the step processes a Release of a modifier key
ModifierReleaseStep ==
    EventStep /\ Head(q).action = RELEASE /\ Head(q).key \in modifier_keys

\* C23: processing a Release of a modifier key leaves the candidate as it is and calls
\* nothing of the store, also when the candidate is non-empty.
C23_ReleaseOnlyUpdatesModifiers ==
    [][ModifierReleaseStep => UNCHANGED <<cand, log, store, closed>>]_vars

====
